---- MODULE Spec2Model ----
(***************************************************************************)
(* Model of the Sphinx replay cache: the per-epoch MixKey (bloom filter    *)
(* in front of a sled tree that also holds the private key) and the        *)
(* MixKeys ring that generates, prunes and shadows the per-epoch MixKeys.  *)
(***************************************************************************)
EXTENDS Integers, Sequences, FiniteSets, TLC

----------------------------------------------------------------------------
\* Bounds of the model.

\* Number of distinct replay tags the packet processor presents.
NumTags == 3
\* Number of bits of the bloom filter's bit array.
FilterBits == 3
\* Number of distinct private keys the OS random source can produce.
NumKeyIds == 2
\* Number of worker threads calling is_replay.
NumWorkers == 2
\* Largest epoch a stand-alone MixKey is constructed for.
MaxMixKeyEpoch == 2
\* The epoch the clock reports when the program starts.
ClockStart == 1
\* Number of times the clock advances to the next epoch.
MaxTicks == 2
\* Largest num_mix_keys a MixKeys is constructed with.
MaxNumMixKeys == 2

----------------------------------------------------------------------------
\* Program constants.

\* sphinxcrypto::constants::SPHINX_REPLAY_TAG_SIZE, the width of a Tag.
SPHINX_REPLAY_TAG_SIZE == 32
\* ecdh_wrapper's private key width in bytes.
KEY_SIZE == 32
\* The epoch tests::basic_mix_key_test constructs its MixKey for.
TestEpoch == 1

\* "private_key" as bytes.
MIX_CACHE_KEY == <<112, 114, 105, 118, 97, 116, 101, 95, 107, 101, 121>>
\* "epoch" as bytes.
EPOCH_KEY == <<101, 112, 111, 99, 104>>

----------------------------------------------------------------------------
\* Values.

\* Tag([u8; SPHINX_REPLAY_TAG_SIZE]): the n-th tag is the array filled with n.
Tag(n) == [i \in 1..SPHINX_REPLAY_TAG_SIZE |-> n]
Tags == {Tag(n) : n \in 1..NumTags}

\* Tag::to_vec: the array copied into a vector.
TagToVec(tag) == [i \in 1..Len(tag) |-> tag[i]]

\* The directory of one epoch: Path::new(base_dir).join("mix_key.<epoch>").
MixKeyPath(epoch) == <<"mix_key", epoch>>

RECURSIVE ShiftBytes(_, _)
ShiftBytes(n, k) == IF k = 0 THEN n ELSE ShiftBytes(n \div 256, k - 1)

\* LittleEndian::write_u64 into a vec![0u8; 8].
LittleEndianWriteU64(n) == [i \in 1..8 |-> ShiftBytes(n, i - 1) % 256]

RECURSIVE ReadBytes(_, _)
ReadBytes(raw, i) == IF i > 8 THEN 0 ELSE raw[i] + 256 * ReadBytes(raw, i + 1)

\* LittleEndian::read_u64 of the first eight bytes.
LittleEndianReadU64(raw) == ReadBytes(raw, 1)

\* PrivateKey::default(): the all-zero key.
PrivateKeyDefault == [i \in 1..KEY_SIZE |-> 0]
\* PrivateKey::generate(rng): one of the keys the random source can produce.
GeneratedKeys == {[i \in 1..KEY_SIZE |-> k] : k \in 1..NumKeyIds}
\* PrivateKey::to_vec: the byte form of a key.
PrivateKeyToVec(key) == [i \in 1..Len(key) |-> key[i]]
\* PrivateKey::load_bytes: fails with a KeyError unless the blob has the key's width.
LoadBytes(blob) ==
    IF Len(blob) = KEY_SIZE
        THEN [ok |-> TRUE, key |-> [i \in 1..KEY_SIZE |-> blob[i]]]
        ELSE [ok |-> FALSE, key |-> PrivateKeyDefault]
\* PrivateKey::public_key: the public key derived from the private key.
PublicKeyOf(key) == [i \in 1..Len(key) |-> (key[i] * 9) % 251]

----------------------------------------------------------------------------
\* The bloom filter (bloom::BloomFilter): a bit array and two hash positions
\* per item.  A filter is the set of its set bits.

BloomHashes(tag) == {((tag[1] - 1) % FilterBits) + 1, (tag[1] % FilterBits) + 1}

\* BloomFilter::with_rate: a fresh filter has no bit set.
FilterEmpty == {}
\* ASMS::contains: every position of the item is set.
FilterContains(filter, tag) == BloomHashes(tag) \subseteq filter
\* A filter whose insert sets nothing.
FilterInsertNothing(filter, tag) == filter
\* ASMS::insert: set every position of the item.
FilterInsert(filter, tag) == filter \cup BloomHashes(tag)

----------------------------------------------------------------------------
\* The sled tree of one directory: a function from the keys present to their
\* values.  Every operation can fail with an I/O error.

EmptyTree == [k \in {} |-> <<>>]

TreePut(store, k, v) == [x \in (DOMAIN store) \cup {k} |-> IF x = k THEN v ELSE store[x]]

\* Tree::get: Err, Ok(None) or Ok(Some(value)).
TreeGet(store, k) ==
    { [ok |-> FALSE, some |-> FALSE, val |-> <<>>],
      IF k \in DOMAIN store
          THEN [ok |-> TRUE, some |-> TRUE, val |-> store[k]]
          ELSE [ok |-> TRUE, some |-> FALSE, val |-> <<>>] }

\* A set that reports Ok without writing.
TreeSetForgets(store, k, v) ==
    { [ok |-> FALSE, store |-> store],
      [ok |-> TRUE, store |-> store] }

\* Tree::set: Err (nothing written) or Ok (the key now maps to the value).
TreeSet(store, k, v) ==
    { [ok |-> FALSE, store |-> store],
      [ok |-> TRUE, store |-> TreePut(store, k, v)] }

\* Tree::start: opening (or creating) the directory fails or succeeds.
TreeStart(store) == { [ok |-> FALSE], [ok |-> TRUE] }

----------------------------------------------------------------------------
\* MixKey::new, as the set of its possible outcomes on the tree of its
\* directory: [res, store, private_key].

\* lib.rs 195-208: the stored epoch is looked up under "epoch"; when the
\* lookup gives nothing (or fails) the epoch's eight bytes are written as a key.
NewEpochStep(store, epoch) ==
    UNION { IF g.ok /\ g.some
                THEN IF epoch # LittleEndianReadU64(g.val)
                         THEN {[res |-> "LoadCacheFailed", store |-> store]}
                         ELSE {[res |-> "Ok", store |-> store]}
                ELSE { [res |-> IF s.ok THEN "Ok" ELSE "SledError", store |-> s.store]
                       : s \in TreeSet(store, LittleEndianWriteU64(epoch), <<>>) }
            : g \in TreeGet(store, EPOCH_KEY) }

\* lib.rs 210-220: the private key is loaded when the lookup gives a blob, and
\* generated and written otherwise (also when the lookup failed).
NewKeyStep(store) ==
    UNION { IF g.ok /\ g.some
                THEN {[res |-> IF LoadBytes(g.val).ok THEN "Ok" ELSE "KeyError",
                       store |-> store, private_key |-> LoadBytes(g.val).key]}
                ELSE {[res |-> "IoError", store |-> store, private_key |-> PrivateKeyDefault],
                      [res |-> "KeyError", store |-> store, private_key |-> PrivateKeyDefault]}
                     \cup
                     UNION { { [res |-> IF s.ok THEN "Ok" ELSE "CreateCacheFailed",
                                store |-> s.store, private_key |-> key]
                               : s \in TreeSet(store, MIX_CACHE_KEY, PrivateKeyToVec(key)) }
                             : key \in GeneratedKeys }
            : g \in TreeGet(store, MIX_CACHE_KEY) }

MixKeyNewOutcomes(store, epoch) ==
    UNION { IF ~t.ok
                THEN {[res |-> "CreateCacheFailed", store |-> store,
                       private_key |-> PrivateKeyDefault]}
                ELSE UNION { IF e.res # "Ok"
                                 THEN {[res |-> e.res, store |-> e.store,
                                        private_key |-> PrivateKeyDefault]}
                                 ELSE NewKeyStep(e.store)
                             : e \in NewEpochStep(store, epoch) }
            : t \in TreeStart(store) }

\* lib.rs 222-227: the MixKey a successful construction returns.
MakeMixKey(epoch, private_key) ==
    [filter |-> FilterEmpty, cache |-> MixKeyPath(epoch),
     private_key |-> private_key, epoch |-> epoch]


\* lib.rs 240-257: is_replay after the filter lookup gave maybe_replay, as the
\* set of its possible outcomes [filter, store, res, failed, wrote].
IsReplayOutcomes(filter, store, tag, maybe_replay) ==
    LET Record == { [filter |-> FilterInsert(filter, tag), store |-> s.store,
                      res |-> IF s.ok THEN "Ok(false)" ELSE "Err(SledError)",
                      failed |-> ~s.ok, wrote |-> s.ok]
                    : s \in TreeSet(store, TagToVec(tag), <<>>) }
    IN  IF ~maybe_replay
            THEN Record
            ELSE UNION { IF g.ok
                             THEN {[filter |-> filter, store |-> store, res |-> "Ok(true)",
                                    failed |-> FALSE, wrote |-> FALSE]}
                             ELSE {[r EXCEPT !.failed = TRUE] : r \in Record}
                         : g \in TreeGet(store, tag) }

----------------------------------------------------------------------------
\* State.

VARIABLES
    disk,     \* path -> sled tree: what each epoch directory holds
    heap,     \* handle -> MixKey: the live Arc<Mutex<MixKey>> values
    locals,   \* handles a stand-alone caller holds
    mixkeys,  \* MixKeys: [up, num_mix_keys]
    keys,     \* MixKeys.keys: epoch -> handle
    clock,    \* the epoch clock.now().epoch reports
    dst,      \* the caller's map given to shadow: epoch -> handle
    pc,       \* worker -> [st, h, tag, maybe_replay]: position in is_replay
    ret,      \* what the last completed call returned
    hist,     \* handle -> [fresh, lost, failed, synced]: history of a live MixKey
    log,      \* path -> [seen, tags, key]: history of a directory
    bound,    \* epochs a MixKey was constructed for and dropped
    restarts, \* whether the history of flushes, drops and lost writes is kept
    round     \* position of the housekeeping loop that drives the ring

vars == <<disk, heap, locals, mixkeys, keys, clock, dst, pc, ret, hist, log, bound,
          restarts, round>>

Workers == 1..NumWorkers
\* Epochs of stand-alone MixKeys, clock values, epochs the ring can hold.
MixKeyEpochs == 1..MaxMixKeyEpoch
ClockEpochs == ClockStart..(ClockStart + MaxTicks)
RingEpochs == ClockStart..(ClockStart + MaxTicks + MaxNumMixKeys - 1)
AllEpochs == MixKeyEpochs \cup RingEpochs \cup {TestEpoch}
\* Every live MixKey is held by the caller, by the ring or by the shadow map.
Handles == 1..(1 + 2 * Cardinality(RingEpochs))
Paths == {MixKeyPath(e) : e \in AllEpochs}

NoTag == <<>>
Idle == [st |-> "idle", h |-> 0, tag |-> NoTag, maybe_replay |-> FALSE]
NoMap == [e \in {} |-> 0]

\* A function without / with one argument more.
Without(f, x) == [y \in (DOMAIN f) \ {x} |-> f[y]]
With(f, x, v) == [y \in (DOMAIN f) \cup {x} |-> IF y = x THEN v ELSE f[y]]

\* The MixKey's mutex is held by a worker inside is_replay.
Locked(h) == \E w \in Workers : pc[w].st # "idle" /\ pc[w].h = h
\* Handles some map or caller still refers to (the Arc's count is not zero).
Referenced(h, ks, d, ls) ==
    \/ h \in ls
    \/ \E e \in DOMAIN ks : ks[e] = h
    \/ \E e \in DOMAIN d : d[e] = h
\* The handle the next Arc::new gets.
FreeHandleIn(hp) == CHOOSE h \in Handles \ DOMAIN hp :
                        \A h2 \in Handles \ DOMAIN hp : h <= h2
FreeHandle == FreeHandleIn(heap)

Start ==
    /\ disk = [p \in Paths |-> EmptyTree]
    /\ heap = [h \in {} |-> 0]
    /\ locals = {}
    /\ mixkeys = [up |-> FALSE, num_mix_keys |-> 0]
    /\ keys = NoMap
    /\ clock = ClockStart
    /\ dst = NoMap
    /\ pc = [w \in Workers |-> Idle]
    /\ ret = [op |-> "none", h |-> 0, epoch |-> 0, tag |-> NoTag, res |-> "none"]
    /\ hist = [h \in {} |-> 0]
    /\ log = [p \in Paths |-> [seen |-> {}, tags |-> {}, key |-> <<>>]]
    /\ bound = {}
    /\ round = "idle"

\* The program starts; flushes, drops and lost writes are not recorded.
Init == Start /\ restarts = FALSE
\* The program starts; flushes, drops and lost writes are recorded.
InitRestarts == Start /\ restarts = TRUE

----------------------------------------------------------------------------
\* A stand-alone MixKey (tests::basic_mix_key_test): construct, check tags
\* from worker threads through the mutex, flush, drop, construct again.

\* MixKey::new(line_rate, epoch, epoch_duration, base_dir) by a caller that
\* keeps the result.
MixKeyNew(epoch) ==
    /\ locals = {}
    /\ \E o \in MixKeyNewOutcomes(disk[MixKeyPath(epoch)], epoch) :
         /\ disk' = [disk EXCEPT ![MixKeyPath(epoch)] = o.store]
         /\ IF o.res = "Ok"
              THEN /\ heap' = With(heap, FreeHandle, MakeMixKey(epoch, o.private_key))
                   /\ locals' = locals \cup {FreeHandle}
                   /\ hist' = With(hist, FreeHandle,
                                   [fresh |-> {}, lost |-> {}, failed |-> FALSE,
                                    synced |-> FALSE])
                   /\ ret' = [op |-> "new", h |-> FreeHandle, epoch |-> epoch,
                              tag |-> NoTag, res |-> "Ok"]
              ELSE /\ UNCHANGED <<heap, locals, hist>>
                   /\ ret' = [op |-> "new", h |-> 0, epoch |-> epoch,
                              tag |-> NoTag, res |-> o.res]
    /\ UNCHANGED <<mixkeys, keys, clock, dst, pc, log, bound, restarts, round>>

\* key.lock().unwrap() by a worker about to call is_replay(tag).
Lock(w, h, tag) ==
    /\ pc[w].st = "idle"
    /\ h \in DOMAIN heap
    /\ ~Locked(h)
    /\ pc' = [pc EXCEPT ![w] = [st |-> "locked", h |-> h, tag |-> tag,
                                maybe_replay |-> FALSE]]
    /\ UNCHANGED <<disk, heap, locals, mixkeys, keys, clock, dst, ret, hist, log, bound, restarts, round>>

\* lib.rs 239: let maybe_replay = self.filter.contains(&tag).
IsReplayContains(w) ==
    /\ pc[w].st = "locked"
    /\ pc' = [pc EXCEPT ![w].st = "checked",
                        ![w].maybe_replay = FilterContains(heap[pc[w].h].filter, pc[w].tag)]
    /\ UNCHANGED <<disk, heap, locals, mixkeys, keys, clock, dst, ret, hist, log, bound, restarts, round>>

\* lib.rs 240-257 and the release of the mutex guard when the call returns.
IsReplayReturn(w) ==
    /\ pc[w].st = "checked"
    /\ LET h == pc[w].h
           tag == pc[w].tag
           path == heap[h].cache
       IN  \E o \in IsReplayOutcomes(heap[h].filter, disk[path], tag, pc[w].maybe_replay) :
             /\ heap' = [heap EXCEPT ![h].filter = o.filter]
             /\ disk' = [disk EXCEPT ![path] = o.store]
             /\ ret' = [op |-> "is_replay", h |-> h, epoch |-> heap[h].epoch,
                        tag |-> tag, res |-> o.res]
             /\ hist' = [hist EXCEPT
                           ![h].fresh = IF o.res = "Ok(false)" THEN @ \cup {tag} ELSE @,
                           ![h].lost = IF restarts /\ o.res = "Err(SledError)"
                                         THEN @ \cup {tag} ELSE @,
                           ![h].failed = @ \/ o.failed,
                           ![h].synced = @ /\ ~o.wrote /\ restarts]
             /\ log' = [log EXCEPT ![path].seen = @ \cup {tag}]
    /\ pc' = [pc EXCEPT ![w] = Idle]
    /\ UNCHANGED <<locals, mixkeys, keys, clock, dst, bound, restarts, round>>

\* MixKey::flush.
Flush(h) ==
    /\ h \in locals
    /\ ~Locked(h)
    /\ hist' = [hist EXCEPT ![h].synced = restarts]
    /\ UNCHANGED <<disk, heap, locals, mixkeys, keys, clock, dst, pc, ret, log, bound, restarts, round>>

\* drop(mix_key): the caller gives up its MixKey; the tree is closed.
Drop(h) ==
    /\ h \in locals
    /\ ~Locked(h)
    /\ locals' = locals \ {h}
    /\ heap' = IF Referenced(h, keys, dst, locals') THEN heap ELSE Without(heap, h)
    /\ hist' = IF Referenced(h, keys, dst, locals') THEN hist ELSE Without(hist, h)
    /\ log' = IF restarts /\ hist[h].synced
                THEN [log EXCEPT ![heap[h].cache].tags = @ \cup hist[h].fresh,
                                 ![heap[h].cache].key = PrivateKeyToVec(heap[h].private_key)]
                ELSE log
    /\ bound' = IF restarts THEN bound \cup {heap[h].epoch} ELSE bound
    /\ UNCHANGED <<disk, mixkeys, keys, clock, dst, pc, ret, restarts, round>>

Next ==
    \/ MixKeyNew(TestEpoch)
    \/ \E w \in Workers, h \in locals, tag \in Tags : Lock(w, h, tag)
    \/ \E w \in Workers : IsReplayContains(w)
    \/ \E w \in Workers : IsReplayReturn(w)
    \/ \E h \in locals : Drop(h)

Spec == Init /\ [][Next]_vars

\* The same with flushes, and with the history of flushes and drops kept.
NextRestarts ==
    \/ Next
    \/ \E h \in locals : Flush(h)

SpecRestarts == InitRestarts /\ [][NextRestarts]_vars

\* Stand-alone MixKeys constructed for several epochs under one base_dir.
NextEpochs ==
    \/ \E epoch \in MixKeyEpochs : MixKeyNew(epoch)
    \/ \E h \in locals : Flush(h)
    \/ \E h \in locals : Drop(h)

SpecEpochs == InitRestarts /\ [][NextEpochs]_vars

----------------------------------------------------------------------------
\* MixKeys: the ring of per-epoch MixKeys, driven by the epoch clock.

\* A range that takes in its upper end as well.
GenerateRangeInclusive(base_epoch, n) == base_epoch..(base_epoch + n)
\* lib.rs 105: base_epoch..base_epoch+num_mix_keys, the upper end left out.
GenerateRange(base_epoch, n) == base_epoch..(base_epoch + n - 1)

\* An entry is never skipped.
GenerateSkipsNothing(ks, epoch) == FALSE
\* lib.rs 106-108: an epoch the ring already has an entry for is skipped.
GenerateSkips(ks, epoch) == epoch \in DOMAIN ks

\* The least epoch of a non-empty set: the next one the for loop visits.
MinEpoch(todo) == CHOOSE e \in todo : \A e2 \in todo : e <= e2

\* lib.rs 105-113: the possible outcomes [keys, heap, disk, res] of the loop
\* over the epochs still to visit, st = [keys, heap, disk, did_generate].
RECURSIVE GenerateLoop(_, _)
GenerateLoop(st, todo) ==
    IF todo = {}
        THEN {[keys |-> st.keys, heap |-> st.heap, disk |-> st.disk,
               res |-> IF st.did_generate THEN "Ok(true)" ELSE "Ok(false)"]}
    ELSE LET epoch == MinEpoch(todo)
             rest == todo \ {epoch}
         IN  IF GenerateSkips(st.keys, epoch)
                 THEN GenerateLoop(st, rest)
                 ELSE UNION {
                        IF o.res = "Ok"
                            THEN GenerateLoop(
                                     [keys |-> With(st.keys, epoch, FreeHandleIn(st.heap)),
                                      heap |-> With(st.heap, FreeHandleIn(st.heap),
                                                    MakeMixKey(epoch, o.private_key)),
                                      disk |-> [st.disk EXCEPT ![MixKeyPath(epoch)] = o.store],
                                      did_generate |-> TRUE],
                                     rest)
                            ELSE {[keys |-> st.keys, heap |-> st.heap,
                                   disk |-> [st.disk EXCEPT ![MixKeyPath(epoch)] = o.store],
                                   res |-> o.res]}
                        : o \in MixKeyNewOutcomes(st.disk[MixKeyPath(epoch)], epoch) }

\* MixKeys::generate on the ring ks: the possible outcomes.
GenerateOutcomes(ks, hp, dk, base_epoch, n) ==
    GenerateLoop([keys |-> ks, heap |-> hp, disk |-> dk, did_generate |-> FALSE],
                 GenerateRange(base_epoch, n))

\* The heap without the MixKeys nothing refers to any more.
Collect(hp, ks, d, ls) ==
    [h \in {x \in DOMAIN hp : Referenced(x, ks, d, ls)} |-> hp[h]]

\* MixKeys::new(clock, num_mix_keys, base_dir, line_rate): init generates
\* from the clock's epoch; a failed construction drops what init inserted.
MixKeysNew(n) ==
    /\ ~mixkeys.up
    /\ \E o \in GenerateOutcomes(NoMap, heap, disk, clock, n) :
         /\ disk' = o.disk
         /\ IF o.res \in {"Ok(true)", "Ok(false)"}
              THEN /\ mixkeys' = [up |-> TRUE, num_mix_keys |-> n]
                   /\ keys' = o.keys
                   /\ heap' = o.heap
                   /\ ret' = [op |-> "MixKeys::new", h |-> 0, epoch |-> 0,
                              tag |-> NoTag, res |-> "Ok"]
              ELSE /\ UNCHANGED <<mixkeys, keys>>
                   /\ heap' = Collect(o.heap, keys, dst, locals)
                   /\ ret' = [op |-> "MixKeys::new", h |-> 0, epoch |-> 0,
                              tag |-> NoTag, res |-> o.res]
    /\ UNCHANGED <<locals, clock, dst, pc, hist, log, bound, restarts, round>>

\* MixKeys::generate(base_epoch), whoever calls it.
GenerateCall(base_epoch) ==
    /\ mixkeys.up
    /\ \E o \in GenerateOutcomes(keys, heap, disk, base_epoch, mixkeys.num_mix_keys) :
         /\ disk' = o.disk
         /\ keys' = o.keys
         /\ heap' = o.heap
         /\ ret' = [op |-> "generate", h |-> 0, epoch |-> base_epoch,
                    tag |-> NoTag, res |-> o.res]
    /\ UNCHANGED <<locals, mixkeys, clock, dst, pc, hist, log, bound, restarts>>

\* MixKeys::generate(base_epoch) called directly.
Generate(base_epoch) == GenerateCall(base_epoch) /\ UNCHANGED round

\* The MixKeys value goes out of scope: the ring's handles are dropped.
MixKeysDrop ==
    /\ mixkeys.up
    /\ mixkeys' = [up |-> FALSE, num_mix_keys |-> 0]
    /\ keys' = NoMap
    /\ heap' = Collect(heap, keys', dst, locals)
    /\ ret' = [op |-> "none", h |-> 0, epoch |-> 0, tag |-> NoTag, res |-> "none"]
    /\ UNCHANGED <<disk, locals, clock, dst, pc, hist, log, bound, restarts, round>>

\* lib.rs 120: the test for a stale entry.  The clock's epoch is at least
\* ClockStart, so the unsigned subtraction does not wrap.
PruneStale(key, now) == key < now - 1
\* lib.rs 119-125: the closure given to retain returns true, which keeps the
\* entry, in the stale branch and false otherwise.
PruneRetains(key, now) == IF PruneStale(key, now) THEN TRUE ELSE FALSE
\* lib.rs 121: did_prune is set in the stale branch.
PruneDidPrune(ks, now) == \E key \in DOMAIN ks : PruneStale(key, now)

\* MixKeys::prune, whoever calls it.
PruneCall ==
    /\ mixkeys.up
    /\ keys' = [key \in {k \in DOMAIN keys : PruneRetains(k, clock)} |-> keys[key]]
    /\ heap' = Collect(heap, keys', dst, locals)
    /\ ret' = [op |-> "prune", h |-> 0, epoch |-> 0, tag |-> NoTag,
               res |-> IF PruneDidPrune(keys, clock) THEN "true" ELSE "false"]
    /\ UNCHANGED <<disk, locals, mixkeys, clock, dst, pc, hist, log, bound, restarts>>

\* MixKeys::prune called directly.
Prune == PruneCall /\ UNCHANGED round

\* MixKeys::public_key(epoch): Some(the entry's public key) or None.
PublicKey(epoch) ==
    IF epoch \in DOMAIN keys
        THEN [some |-> TRUE, key |-> PublicKeyOf(heap[keys[epoch]].private_key)]
        ELSE [some |-> FALSE, key |-> <<>>]

\* A shadow that retains every entry of dst.
ShadowKeepsAll(d, ks) ==
    [key \in (DOMAIN d) \cup (DOMAIN ks) |-> IF key \in DOMAIN d THEN d[key] ELSE ks[key]]
\* A shadow that adds one missing entry, the least, per call.
ShadowAddsOne(d, ks) ==
    [key \in ((DOMAIN d) \cap (DOMAIN ks))
              \cup {e \in DOMAIN ks : \A e2 \in (DOMAIN ks) \ (DOMAIN d) : e <= e2} |->
        IF key \in DOMAIN d THEN d[key] ELSE ks[key]]
\* MixKeys::shadow(dst): drop what the ring no longer has, add what dst lacks.
ShadowOf(d, ks) ==
    [key \in ((DOMAIN d) \cap (DOMAIN ks)) \cup (DOMAIN ks) |->
        IF key \in DOMAIN d THEN d[key] ELSE ks[key]]

Shadow ==
    /\ mixkeys.up
    /\ dst' = ShadowOf(dst, keys)
    /\ heap' = Collect(heap, keys, dst', locals)
    /\ ret' = [op |-> "shadow", h |-> 0, epoch |-> 0, tag |-> NoTag, res |-> "()"]
    /\ UNCHANGED <<disk, locals, mixkeys, keys, clock, pc, hist, log, bound, restarts, round>>

\* The caller takes an entry out of the map it gives to shadow.
DstRemove(epoch) ==
    /\ epoch \in DOMAIN dst
    /\ dst' = Without(dst, epoch)
    /\ heap' = Collect(heap, keys, dst', locals)
    /\ ret' = [op |-> "none", h |-> 0, epoch |-> 0, tag |-> NoTag, res |-> "none"]
    /\ UNCHANGED <<disk, locals, mixkeys, keys, clock, pc, hist, log, bound, restarts, round>>

\* The clock reaches the next epoch.
Tick ==
    /\ clock < ClockStart + MaxTicks
    /\ clock' = clock + 1
    /\ UNCHANGED <<disk, heap, locals, mixkeys, keys, dst, pc, ret, hist, log, bound, restarts, round>>

NextRing ==
    \/ \E n \in 1..MaxNumMixKeys : MixKeysNew(n)
    \/ \E base_epoch \in ClockEpochs : Generate(base_epoch)
    \/ Prune
    \/ Tick
    \/ MixKeysDrop

SpecRing == Init /\ [][NextRing]_vars

\* The clock runs and a MixKeys is constructed.
NextNew ==
    \/ \E n \in 1..MaxNumMixKeys : MixKeysNew(n)
    \/ Tick

SpecNew == Init /\ [][NextNew]_vars

\* A ring is constructed when the program starts and pruned as the clock
\* runs, while a caller keeps a map of its own, which it also changes itself,
\* up to date with shadow.
NextShadow ==
    \/ clock = ClockStart /\ \E n \in 1..MaxNumMixKeys : MixKeysNew(n)
    \/ Tick
    \/ Prune
    \/ Shadow
    \/ \E epoch \in RingEpochs : DstRemove(epoch)

SpecShadow == Init /\ [][NextShadow]_vars

\* A ring is constructed and generate is called for any base epoch.
NextGenerate ==
    \/ \E n \in 1..MaxNumMixKeys : MixKeysNew(n)
    \/ \E base_epoch \in ClockEpochs : Generate(base_epoch)

SpecGenerate == Init /\ [][NextGenerate]_vars

\* A housekeeping task drives the ring: after every advance of the clock it
\* calls generate(clock.now().epoch) and then prune().
HousekeepingTick ==
    /\ mixkeys.up
    /\ round \in {"idle", "done"}
    /\ clock < ClockStart + MaxTicks
    /\ clock' = clock + 1
    /\ round' = "generate"
    /\ UNCHANGED <<disk, heap, locals, mixkeys, keys, dst, pc, ret, hist, log, bound, restarts>>

\* generate(clock.now().epoch); a failed generate is called again.
HousekeepingGenerate ==
    /\ round = "generate"
    /\ GenerateCall(clock)
    /\ round' = IF ret'.res \in {"Ok(true)", "Ok(false)"} THEN "prune" ELSE "generate"

\* prune(), which completes the round.
HousekeepingPrune ==
    /\ round = "prune"
    /\ PruneCall
    /\ round' = "done"

NextHousekeeping ==
    \/ \E n \in 1..MaxNumMixKeys : MixKeysNew(n)
    \/ HousekeepingTick
    \/ HousekeepingGenerate
    \/ HousekeepingPrune

SpecHousekeeping == Init /\ [][NextHousekeeping]_vars

\* The same while a caller keeps a map of its own up to date with shadow.
NextRotation ==
    \/ NextHousekeeping
    \/ Shadow

SpecRotation == Init /\ [][NextRotation]_vars

----------------------------------------------------------------------------
\* Claims about one MixKey.

\* The directory the MixKey a worker is calling into has open.
PathOf(w) == heap[pc[w].h].cache

\* C1: once is_replay(t) has returned false on a MixKey, every later
\* is_replay(t) on that MixKey returns true, whatever calls on other tags came
\* in between, provided no store operation of the MixKey has failed.
C1_ReplayDetected ==
    [][\A w \in Workers :
         (/\ IsReplayReturn(w)
          /\ pc[w].tag \in hist[pc[w].h].fresh
          /\ ~hist'[pc[w].h].failed)
         => ret'.res = "Ok(true)"]_vars

\* A replay of a tag reported fresh was detected after another tag was
\* reported fresh too, with no store failure.
C1_Witness ==
    /\ ret.op = "is_replay"
    /\ ret.res = "Ok(true)"
    /\ ret.h \in DOMAIN hist
    /\ ret.tag \in hist[ret.h].fresh
    /\ hist[ret.h].fresh # {ret.tag}
    /\ ~hist[ret.h].failed

\* C2: is_replay(t) never returns true for a tag that was never passed to
\* is_replay on this MixKey or on an earlier MixKey over the same directory.
C2_NoFalseReplay ==
    [][\A w \in Workers :
         (IsReplayReturn(w) /\ ret'.res = "Ok(true)")
         => pc[w].tag \in log[PathOf(w)].seen]_vars

\* C3: a MixKey constructed over a directory after an earlier MixKey over it
\* was flushed and dropped returns true for every tag the earlier one
\* reported fresh (no store operation failing).
C3_RestartKeepsTags ==
    [][\A w \in Workers :
         (/\ IsReplayReturn(w)
          /\ pc[w].tag \in log[PathOf(w)].tags
          /\ ~hist'[pc[w].h].failed)
         => ret'.res = "Ok(true)"]_vars

\* C4: for each tag at most one is_replay call on a MixKey returns false,
\* under every interleaving of the worker threads.
C4_FreshAtMostOnce ==
    [][\A w \in Workers :
         (IsReplayReturn(w) /\ ret'.res = "Ok(false)")
         => pc[w].tag \notin hist[pc[w].h].fresh]_vars

\* C5: a MixKey constructed over a directory after an earlier MixKey over it
\* was flushed and dropped has the earlier one's private key and the epoch
\* asked for, and a key is generated only when the directory holds none: no
\* construction replaces a private key the directory holds.
C5_RestartKeepsKey ==
    [][MixKeyNew(TestEpoch) =>
         /\ (ret'.res = "Ok" /\ log[MixKeyPath(TestEpoch)].key # <<>>)
              => /\ PrivateKeyToVec(heap'[ret'.h].private_key)
                      = log[MixKeyPath(TestEpoch)].key
                 /\ heap'[ret'.h].epoch = TestEpoch
         /\ MIX_CACHE_KEY \in DOMAIN disk[MixKeyPath(TestEpoch)]
              => disk'[MixKeyPath(TestEpoch)][MIX_CACHE_KEY]
                   = disk[MixKeyPath(TestEpoch)][MIX_CACHE_KEY]]_vars

\* C6: once a MixKey was constructed for epoch e1 under the base directory
\* and dropped, constructing a MixKey for another epoch e2 under the same
\* base directory does not succeed (it fails with LoadCacheFailed, or with
\* an error of the store).
C6_EpochMismatchRejected ==
    [][\A e2 \in MixKeyEpochs :
         (MixKeyNew(e2) /\ \E e1 \in bound : e1 # e2) => ret'.res # "Ok"]_vars

\* C15: when the store get of a call that found the tag in the filter fails,
\* the call returns Err(SledError) and changes neither the filter nor the
\* store: the failure is not taken for "tag not present".  (The first store
\* failure of a MixKey is the one looked at.)
C15_ReadFailureSurfaced ==
    [][\A w \in Workers :
         (/\ IsReplayReturn(w)
          /\ pc[w].maybe_replay
          /\ ~hist[pc[w].h].failed
          /\ hist'[pc[w].h].failed)
         => /\ ret'.res = "Err(SledError)"
            /\ heap'[pc[w].h].filter = heap[pc[w].h].filter
            /\ disk'[PathOf(w)] = disk[PathOf(w)]]_vars

\* C16: once is_replay(t) has returned Err(SledError) on a MixKey (the filter
\* was updated and the store write failed), no later is_replay(t) on that
\* MixKey returns false.
C16_LostWriteStillDetected ==
    [][\A w \in Workers :
         (IsReplayReturn(w) /\ pc[w].tag \in hist[pc[w].h].lost)
         => ret'.res # "Ok(false)"]_vars

\* C17: for every live MixKey, every tag that is a key of its store is
\* reported as contained by its filter.
C17_FilterCoversStore ==
    \A h \in DOMAIN heap : \A tag \in Tags :
        TagToVec(tag) \in DOMAIN disk[heap[h].cache]
          => FilterContains(heap[h].filter, tag)

\* C18: when is_replay(t) returns Ok(false), t is a key of the store and is
\* contained by the filter in the state the call leaves; no is_replay takes a
\* tag out of the store.
C18_FreshIsRecorded ==
    [][\A w \in Workers :
         IsReplayReturn(w)
         => /\ ret'.res = "Ok(false)"
                 => /\ TagToVec(pc[w].tag) \in DOMAIN disk'[PathOf(w)]
                    /\ FilterContains(heap'[pc[w].h].filter, pc[w].tag)
            /\ \A tag \in Tags :
                 TagToVec(tag) \in DOMAIN disk[PathOf(w)]
                   => TagToVec(tag) \in DOMAIN disk'[PathOf(w)]]_vars

\* is_replay has just reported a tag fresh on a MixKey that saw a store
\* failure, and the tag is in the store, next to another tag, and in the
\* filter.
C18_Witness ==
    /\ ret.op = "is_replay"
    /\ ret.res = "Ok(false)"
    /\ ret.h \in DOMAIN heap
    /\ hist[ret.h].failed
    /\ TagToVec(ret.tag) \in DOMAIN disk[heap[ret.h].cache]
    /\ \E tag \in Tags \ {ret.tag} : TagToVec(tag) \in DOMAIN disk[heap[ret.h].cache]
    /\ FilterContains(heap[ret.h].filter, ret.tag)

\* C19: no MixKey::new changes or removes the private key a directory holds;
\* a construction over a directory that holds one either fails or uses it.
C19_StoredKeyNotReplaced ==
    [][\A epoch \in AllEpochs :
         (/\ ret'.op = "new"
          /\ MIX_CACHE_KEY \in DOMAIN disk[MixKeyPath(epoch)]
          /\ MixKeyNew(epoch))
         => /\ MIX_CACHE_KEY \in DOMAIN disk'[MixKeyPath(epoch)]
            /\ disk'[MixKeyPath(epoch)][MIX_CACHE_KEY]
                 = disk[MixKeyPath(epoch)][MIX_CACHE_KEY]
            /\ ret'.res = "Ok"
                 => PrivateKeyToVec(heap'[ret'.h].private_key)
                      = disk[MixKeyPath(epoch)][MIX_CACHE_KEY]]_vars

----------------------------------------------------------------------------
\* Claims about the ring.

\* C7: after prune returns with the clock at epoch e, the ring holds no entry
\* whose epoch is less than e - 1.
C7_PruneDropsStale ==
    [][Prune => \A e \in DOMAIN keys' : e >= clock - 1]_vars

\* C8: prune keeps every entry whose epoch is at least clock - 1, with the
\* same handle.
C8_PruneKeepsGrace ==
    [][Prune => \A e \in DOMAIN keys :
                  e >= clock - 1 => (e \in DOMAIN keys' /\ keys'[e] = keys[e])]_vars

\* C9: prune returns true exactly when it removed at least one entry.
C9_PruneReportsRemoval ==
    [][Prune => (ret'.res = "true" <=>
                   (DOMAIN keys' \subseteq DOMAIN keys /\ DOMAIN keys' # DOMAIN keys))]_vars

\* Epochs public_key is asked for: those the ring can hold and five beyond.
QueryEpochs == 0..(ClockStart + MaxTicks + MaxNumMixKeys + 5)

\* C10: after MixKeys::new(clock, n, ..) succeeds the ring holds exactly the
\* epochs E..E+n-1, E the clock's epoch, and public_key is Some for exactly
\* these epochs.
C10_NewPopulatesRing ==
    [][(~mixkeys.up /\ mixkeys'.up)
         => /\ ret'.op = "MixKeys::new" /\ ret'.res = "Ok"
            /\ DOMAIN keys' = clock..(clock + mixkeys'.num_mix_keys - 1)
            /\ \A e \in QueryEpochs :
                 PublicKey(e)'.some
                   <=> e \in clock..(clock + mixkeys'.num_mix_keys - 1)]_vars

\* A ring of more than one epoch was just constructed; the clock's epoch has
\* a public key and the epoch five later has none.
C10_Witness ==
    /\ ret.op = "MixKeys::new"
    /\ ret.res = "Ok"
    /\ mixkeys.num_mix_keys > 1
    /\ DOMAIN keys = clock..(clock + mixkeys.num_mix_keys - 1)
    /\ PublicKey(clock).some
    /\ ~PublicKey(clock + 5).some

\* C11: whenever a round of the housekeeping loop (generate(clock epoch) and
\* then prune() after an advance of the clock) has completed, the ring holds
\* an entry for every epoch e, e+1, ..., e+N-1, e the clock's epoch and N
\* num_mix_keys.
C11_RingCoverage ==
    round = "done"
      => \A e \in clock..(clock + mixkeys.num_mix_keys - 1) : e \in DOMAIN keys

\* C12: a generate(base_epoch) in which every construction succeeds inserts
\* a new MixKey, under a handle of its own, for exactly the epochs of
\* [base_epoch, base_epoch + num_mix_keys) the ring lacked, leaves every
\* entry the ring had under its handle, and returns true exactly when it
\* inserted an entry; called again with the same base_epoch it returns false
\* and changes nothing.  A step that returns from generate is one that leaves
\* ret.op = "generate" and changes nothing generate cannot change.
C12_GenerateFillsRange ==
    [][(/\ ret'.op = "generate"
        /\ ret'.res \in {"Ok(true)", "Ok(false)"}
        /\ UNCHANGED <<locals, mixkeys, clock, dst, pc, hist, log, bound, restarts, round>>)
       => LET range == GenerateRange(ret'.epoch, mixkeys.num_mix_keys)
              absent == range \ DOMAIN keys
          IN  /\ DOMAIN keys' = (DOMAIN keys) \cup absent
              /\ \A e \in DOMAIN keys : keys'[e] = keys[e]
              /\ \A e \in absent :
                   /\ keys'[e] \notin DOMAIN heap
                   /\ heap'[keys'[e]].epoch = e
                   /\ \A e2 \in (DOMAIN keys') \ {e} : keys'[e2] # keys'[e]
              /\ ret'.res = "Ok(true)" <=> absent # {}
              /\ (ret.op = "generate" /\ ret.epoch = ret'.epoch
                    /\ ret.res \in {"Ok(true)", "Ok(false)"})
                   => /\ ret'.res = "Ok(false)"
                      /\ keys' = keys /\ heap' = heap /\ disk' = disk]_vars

\* generate returned true on a ring of more than one epoch per call that
\* also holds an entry outside the range generate was called for.
C12_Witness ==
    /\ ret.op = "generate"
    /\ ret.res = "Ok(true)"
    /\ mixkeys.num_mix_keys > 1
    /\ \E e \in DOMAIN keys : e \notin GenerateRange(ret.epoch, mixkeys.num_mix_keys)
    /\ \E e \in DOMAIN keys : e \in GenerateRange(ret.epoch, mixkeys.num_mix_keys)

\* C13: when shadow(dst) returns, whatever dst held, the epochs of dst are
\* the epochs of the ring: every epoch the ring lacks is gone from dst and
\* every ring epoch dst lacked is in dst under the ring's own handle.
C13_ShadowReconciles ==
    [][Shadow => /\ DOMAIN dst' = DOMAIN keys
                 /\ \A e \in (DOMAIN dst) \ (DOMAIN keys) : e \notin DOMAIN dst'
                 /\ \A e \in (DOMAIN keys) \ (DOMAIN dst) :
                      e \in DOMAIN dst' /\ dst'[e] = keys[e]]_vars

\* shadow has returned with dst holding the ring's handles for a ring of more
\* than one epoch.
C13_Witness ==
    /\ ret.op = "shadow"
    /\ Cardinality(DOMAIN keys) > 1
    /\ DOMAIN dst = DOMAIN keys
    /\ \A e \in DOMAIN keys : dst[e] = keys[e]

\* C14: shadow is idempotent and leaves the ring alone: shadow never changes
\* the ring, what it leaves in dst is what one more shadow would leave, and a
\* shadow called right after a shadow, the ring not changed in between,
\* leaves dst with the same epochs and the same handle under each.
C14_ShadowIdempotent ==
    [][Shadow => /\ keys' = keys
                 /\ mixkeys' = mixkeys
                 /\ ShadowOf(dst', keys') = dst'
                 /\ ret.op = "shadow" => dst' = dst]_vars

\* shadow has returned on a ring that prune has made smaller, with a
\* non-empty dst that one more shadow would leave as it is.
C14_Witness ==
    /\ ret.op = "shadow"
    /\ DOMAIN dst # {}
    /\ Cardinality(DOMAIN keys) < mixkeys.num_mix_keys
    /\ ShadowOf(dst, keys) = dst

\* C20: right after shadow(dst) returns, whatever generate, prune and shadow
\* calls came before, every epoch of dst has in dst the handle the ring has
\* for that epoch.
C20_ShadowSharesHandles ==
    ret.op = "shadow"
      => \A e \in DOMAIN dst : e \in DOMAIN keys /\ dst[e] = keys[e]

====
